---- MODULE Spec2Model ----
(***************************************************************************)
(* Model of gopherdl.py: the GopherURL value type (identity, validity,     *)
(* storage path), the download retry loop, the scope filter and the crawl  *)
(* loop.                                                                   *)
(*                                                                         *)
(* Python strings are modelled as sequences of one-character strings, so   *)
(* that strip, split, join, startswith and the path normalisation of       *)
(* os.path are computed character by character as the library does.        *)
(* The display text of a GopherURL is left out: no code path other than    *)
(* logging reads it.                                                       *)
(***************************************************************************)
EXTENDS Integers, Sequences, FiniteSets, TLC

VARIABLES
    config,     \* the Config object of the run (record of option values)
    root_gurl,  \* the root GopherURL handed to crawl
    cwd,        \* the process working directory, a sequence of components
    server,     \* what each (host, port, path) answers: a sequence of menu lines
    files,      \* the local files that exist: relative path -> stored menu lines
    gurls,      \* crawl's set of discovered GopherURLs (a Python set)
    menus,      \* crawl's list of menus to expand
    idx,        \* number of entries of menus the for loop has consumed
    depth,      \* crawl's depth counter
    pc,         \* position of the crawl call
    expanded,   \* history: sequence of the resources whose menu content was retrieved
    rootKids,   \* history: the result of the first expansion of the root
    failed,     \* history: some retrieval of this call returned no content
    outcomes,   \* history: how the retrieval of each entry of expanded ended
    results,    \* history: the sets returned by completed crawl calls
    vgurl,      \* the GopherURL handed to valid()
    vout,       \* what valid() answered for vgurl
    retries,    \* download: the retries counter
    delay,      \* download: the delay slept before the next attempt
    dlpc,       \* download: position of the call
    attempts,   \* history: how each connection attempt of the call ended
    slept,      \* history: the delays the call has slept, in order
    menucontent, \* getlinks: the menu text it is handed
    urls,       \* getlinks: the list it returns
    glpc,       \* getlinks: position of the call
    hosts,      \* main: the root addresses of the command line
    hostidx,    \* main: number of root addresses the for loop has consumed
    mainpc,     \* main: position of the run
    logged,     \* history: the root addresses whose ValueError main logged
    pending,    \* download_gopher_urls: the resources still to be written
    dirs,       \* the local directories that exist
    wrote,      \* history: what the last call of write_gopherurl did
    returned    \* history: the root addresses whose gopherdl call returned

vars == <<config, root_gurl, cwd, server, files, gurls, menus, idx, depth, pc,
          expanded, rootKids, failed, outcomes, results, vgurl, vout,
          retries, delay, dlpc, attempts, slept, menucontent, urls, glpc,
          hosts, hostidx, mainpc, logged, pending, dirs, wrote, returned>>

crawlVars == <<config, root_gurl, server, files, gurls, menus, idx, depth, pc,
               expanded, rootKids, failed, outcomes, results>>

validVars == <<vgurl, vout>>

downloadVars == <<retries, delay, dlpc, attempts, slept>>

getlinksVars == <<menucontent, urls, glpc>>

mainVars == <<hosts, hostidx, mainpc, logged, pending, dirs, wrote, returned>>

-----------------------------------------------------------------------------
(* Python str operations on sequences of characters.                       *)
(*                                                                         *)
(* An operator whose argument is used several times takes it through a     *)
(* one-element set (x \in {s}), so that the argument is evaluated once.    *)

SLASH == "/"
DOT == "."

\* the one element of a one-element set
The(S) == CHOOSE r \in S : TRUE

\* the items of a list
Range(seq) == {seq[i] : i \in DOMAIN seq}

\* str.startswith
StartsWith(s, p) ==
    \E x \in {s}, y \in {p} : Len(y) <= Len(x) /\ SubSeq(x, 1, Len(y)) = y

\* the `in` operator on two strings
Contains(s, sub) ==
    \E x \in {s} :
        \E i \in 0..(Len(x) - Len(sub)) : SubSeq(x, i + 1, i + Len(sub)) = sub

\* str.strip(c) for a one-character argument: what lies between the first
\* and the last character other than c
Strip(s, c) ==
    The({LET keep == {i \in DOMAIN x : x[i] # c}
         IN IF keep = {} THEN <<>>
            ELSE SubSeq(x, CHOOSE i \in keep : \A j \in keep : i <= j,
                           CHOOSE i \in keep : \A j \in keep : j <= i)
         : x \in {s}})

\* str.split(sep=c): the pieces between the occurrences of c, always at
\* least one (possibly empty) piece
RECURSIVE SplitAcc(_, _, _, _)
SplitAcc(x, c, i, cur) ==
    IF i > Len(x) THEN <<cur>>
    ELSE IF x[i] = c THEN <<cur>> \o SplitAcc(x, c, i + 1, <<>>)
    ELSE SplitAcc(x, c, i + 1, Append(cur, x[i]))

Split(s, c) == The({SplitAcc(x, c, 1, <<>>) : x \in {s}})

\* c.join(parts)
RECURSIVE JoinFrom(_, _, _)
JoinFrom(x, c, i) ==
    IF i > Len(x) THEN <<>>
    ELSE IF i = Len(x) THEN x[i]
    ELSE x[i] \o <<c>> \o JoinFrom(x, c, i + 1)

JoinSep(parts, c) == The({JoinFrom(x, c, 1) : x \in {parts}})

-----------------------------------------------------------------------------
(* posixpath *)

\* os.path.join(a, b)
OsPathJoin(a, b) ==
    The({IF StartsWith(y, <<SLASH>>) THEN y
         ELSE IF x = <<>> \/ x[Len(x)] = SLASH THEN x \o y
         ELSE x \o <<SLASH>> \o y
         : x \in {a}, y \in {b}})

\* the components of a path string, empty pieces dropped
Components(p) == SelectSeq(Split(p, SLASH), LAMBDA piece : piece # <<>>)

\* os.path.normpath on an absolute path, as a component list: "." is dropped,
\* ".." removes the component before it and is dropped at the root
RECURSIVE NormFrom(_, _, _)
NormFrom(stack, x, i) ==
    IF i > Len(x) THEN stack
    ELSE IF x[i] = <<DOT>> THEN NormFrom(stack, x, i + 1)
    ELSE IF x[i] = <<DOT, DOT>>
         THEN The({NormFrom(IF st = <<>> THEN st ELSE SubSeq(st, 1, Len(st) - 1),
                            x, i + 1) : st \in {stack}})
    ELSE NormFrom(Append(stack, x[i]), x, i + 1)

NormAbs(stack, comps) == The({NormFrom(stack, x, 1) : x \in {comps}})

\* os.path.abspath(p) with working directory wd, as a component list
AbsPath(wd, p) ==
    The({IF StartsWith(x, <<SLASH>>) THEN NormAbs(<<>>, Components(x))
         ELSE NormAbs(wd, Components(x))
         : x \in {p}})

\* the length of the common prefix of two lists
CommonLen(a, b) ==
    The({Cardinality({n \in 1..Len(x) :
                        n <= Len(y) /\ SubSeq(x, 1, n) = SubSeq(y, 1, n)})
         : x \in {a}, y \in {b}})

\* os.path.relpath(p) (start = the working directory) for a non-empty p
RelPath(wd, p) ==
    The({LET i == CommonLen(wd, path_list)
             rel_list == [k \in 1..(Len(wd) - i) |-> <<DOT, DOT>>]
                         \o SubSeq(path_list, i + 1, Len(path_list))
         IN IF rel_list = <<>> THEN <<DOT>> ELSE JoinSep(rel_list, SLASH)
         : path_list \in {AbsPath(wd, p)}})

-----------------------------------------------------------------------------
(* class GopherURL *)

GopherURL(type, path, host, port) ==
    [type |-> type, path |-> path, host |-> host, port |-> port]

invalid_types == {"7", "2", "3", "8", "T"}

GOPHERMAP == <<"g", "o", "p", "h", "e", "r", "m", "a", "p">>

URL_MARK == <<"U", "R", "L", ":">>

is_menu(g) == g.type = "1"

\* GopherURL.__eq__
Eq(a, b) == a.host = b.host /\ a.path = b.path

to_url_path(g) ==
    OsPathJoin(g.host, JoinSep(Split(Strip(g.path, SLASH), SLASH), SLASH))

to_file_path(g) ==
    IF is_menu(g) THEN OsPathJoin(to_url_path(g), GOPHERMAP) ELSE to_url_path(g)

\* GopherURL.__hash__: the hash of the storage path string; two strings are
\* taken to hash alike exactly when they are the same string
Hash(g) == to_file_path(g)

\* As it would look in a browser urlbar.  urlunparse receives the text after
\* the first "?" in its params slot, so it is appended after a ";".  With a
\* host, or a path that does not start with "//", the path gets a leading
\* "/" when it has none and "//" and the host are put in front of it.
to_url(g) ==
    LET path_parts == Split(g.path, "?")
        path == IF Len(path_parts) = 1 THEN g.path ELSE path_parts[1]
        query == IF Len(path_parts) = 1 THEN <<>>
                 ELSE JoinSep(Tail(path_parts), "?")
        url == IF query # <<>> THEN path \o <<";">> \o query ELSE path
        rooted == IF url # <<>> /\ Head(url) # SLASH THEN <<SLASH>> \o url ELSE url
        located == IF g.host # <<>> \/ ~StartsWith(url, <<SLASH, SLASH>>)
                   THEN <<SLASH, SLASH>> \o g.host \o rooted
                   ELSE url
    IN <<"g", "o", "p", "h", "e", "r", ":">> \o located

\* GopherURL.valid, as the outcome of the call: "True", "False", or
\* "ValueError" when os.path.relpath is handed the empty string
valid_outcome(wd, g) ==
    IF Len(g.path) = 0 THEN "False"
    ELSE IF g.port <= 0 THEN "False"
    ELSE IF g.type \in invalid_types THEN "False"
    ELSE IF Contains(g.path, URL_MARK) THEN "False"
    ELSE IF to_file_path(g) = <<>> THEN "ValueError"
    ELSE IF StartsWith(RelPath(wd, to_file_path(g)), g.host) THEN "True"
    ELSE "False"

valid(wd, g) == valid_outcome(wd, g) = "True"

-----------------------------------------------------------------------------
(* bounds of the model *)

\* at most this many command-line options are given
MaxFlags == 2
\* -l is given a value in 0 .. MaxDepthOpt
MaxDepthOpt == 1
\* the server's menus hold at most this many lines in total
MaxLines == 2
\* the menu list of crawl is followed up to this length
MaxQueue == 6
\* selectors of at most this many characters are handed to valid()
MaxPathLen == 5
\* at most this many root addresses are on the command line
MaxHosts == 2
\* menu texts of at most this many lines are handed to getlinks
MaxMenuLines == 2
\* host names of at most this many characters are handed to valid()
MaxHostLen == 2

-----------------------------------------------------------------------------
(* class Config *)

FlagNames == {"-l", "-s", "-c", "-p", "-A", "-R", "-M"}

\* a compiled pattern is represented by the set of strings it fully matches;
\* NoRegex stands for None
NoRegex == [none |-> TRUE, lang |-> {}]
Regex(lang) == [none |-> FALSE, lang |-> lang]
fullmatch(regex, url) == url \in regex.lang

\* math.inf and the integers a maxdepth can be
MathInf == [inf |-> TRUE, n |-> 0]
IntDepth(n) == [inf |-> FALSE, n |-> n]

\* the comparison with >= in place of >
ExceedsOrEquals(d, maxdepth) == ~maxdepth.inf /\ d >= maxdepth.n

\* depth > maxdepth, for an integer depth
Exceeds(d, maxdepth) == ~maxdepth.inf /\ d > maxdepth.n

\* the archive directory when -O is not given: "./archive/"
DefaultArchive == <<".", "/", "a", "r", "c", "h", "i", "v", "e", "/">>
\* the -O value of the model: the working directory
HereArchive == <<".">>

\* Config.__init__: optdict is given as the set of flags present and the
\* values of the flags that take one
Config(flags, l, A, R, O) ==
    [recursive      |-> "-r" \in flags,
     maxdepth       |-> IF "-l" \in flags THEN IntDepth(l) ELSE MathInf,
     spanhosts      |-> "-s" \in flags,
     clobber        |-> "-c" \in flags,
     ascend_parents |-> "-p" \in flags,
     accept_regex   |-> IF "-A" \in flags THEN Regex(A) ELSE NoRegex,
     reject_regex   |-> IF "-R" \in flags THEN Regex(R) ELSE NoRegex,
     regex_on_menus |-> "-M" \in flags,
     only_save_menu |-> "-m" \in flags,
     no_save_menu   |-> "-n" \in flags,
     archive_directory |-> IF "-O" \in flags THEN O ELSE DefaultArchive]

-----------------------------------------------------------------------------
(* the resources and inputs of the model *)

HOST_H == <<"h">>
HOST_G == <<"g">>

\* the port of a root address that names none
DefaultPort == 70

MenuA == GopherURL("1", <<"/", "a">>, HOST_H, DefaultPort)
FileA == GopherURL("0", <<"/", "a">>, HOST_H, DefaultPort)
MenuX == GopherURL("1", <<"x">>, HOST_G, DefaultPort)
RootLink == GopherURL("1", <<"/">>, HOST_H, DefaultPort)

\* the lines a menu of the server can hold, in the order it lists them
LinkUniverse == <<MenuA, FileA, MenuX, RootLink>>

RECURSIVE PickLines(_, _)
PickLines(S, i) ==
    IF i > Len(LinkUniverse) THEN <<>>
    ELSE (IF i \in S THEN <<LinkUniverse[i]>> ELSE <<>>) \o PickLines(S, i + 1)

\* every menu text of the model: a sequence of parsed lines
AllContents == {PickLines(S, 1) : S \in SUBSET (1..Len(LinkUniverse))}

\* the root of gopherdl(): spliturl gives path "/" and the default port, and
\* probably_a_menu makes it a menu
TheRoot == GopherURL("1", <<"/">>, HOST_H, DefaultPort)

TheCwd == <<<<"w">>, <<"d">>>>

AcceptOptions == {{to_url(MenuX)}}
RejectOptions == {{to_url(FileA)}}

Configs ==
    {Config(flags, l, A, R, HereArchive) :
        flags \in {F \in SUBSET FlagNames : Cardinality(F) <= MaxFlags},
        l \in 0..MaxDepthOpt, A \in AcceptOptions, R \in RejectOptions}

\* the local files of the run: none, or a stored copy of menu A
EmptyFiles == [p \in {} |-> <<>>]
StoredMenuA == [p \in {AbsPath(TheCwd, to_file_path(MenuA))} |-> <<FileA>>]
FilesOptions == {EmptyFiles, StoredMenuA}

-----------------------------------------------------------------------------
(* Python sets of GopherURL: two objects are one element when their hashes *)
(* are equal and __eq__ holds                                               *)

SameElem(a, b) == Hash(a) = Hash(b) /\ Eq(a, b)

\* x in S
In(x, S) == \E y \in S : SameElem(x, y)

\* set(lst): the items are inserted in list order, an item already present
\* is not inserted again
RECURSIVE SetAddAll(_, _)
SetAddAll(S, lst) ==
    IF lst = <<>> THEN S
    ELSE SetAddAll(IF In(Head(lst), S) THEN S ELSE S \cup {Head(lst)}, Tail(lst))

SetFromList(lst) == SetAddAll({}, lst)

\* the orders in which iterating a set can yield its elements
IterOrders(S) ==
    {o \in [1..Cardinality(S) -> S] : \A i, j \in DOMAIN o : i # j => o[i] # o[j]}

\* a == b for two sets
SetEq(a, b) == Cardinality(a) = Cardinality(b) /\ \A x \in a : In(x, b)

-----------------------------------------------------------------------------
(* module-level helpers *)

\* get_menus on a list
get_menus(lst) == SelectSeq(lst, LAMBDA g : is_menu(g))

\* get_menus on a set: one list per iteration order
MenuLists(S) == {get_menus(o) : o \in IterOrders(S)}

\* getlinks: the lines are GopherURL candidates; informational lines and
\* candidates that valid() refuses (or fails on with ValueError) are skipped
getlinks(wd, lines) ==
    SelectSeq(lines, LAMBDA l : l.type # "i" /\ valid(wd, l))

-----------------------------------------------------------------------------
(* getlinks on the text of a menu *)

TAB == "\t"
NEWLINE == "\n"
Whitespace == {" ", TAB, NEWLINE, "\r"}

\* str.strip(): what lies between the first and the last character that is
\* not whitespace
StripWs(s) ==
    The({LET keep == {i \in DOMAIN x : x[i] \notin Whitespace}
         IN IF keep = {} THEN <<>>
            ELSE SubSeq(x, CHOOSE i \in keep : \A j \in keep : i <= j,
                           CHOOSE i \in keep : \A j \in keep : j <= i)
         : x \in {s}})

Digits == <<"0", "1", "2", "3", "4", "5", "6", "7", "8", "9">>
DigitValue(c) == (CHOOSE i \in DOMAIN Digits : Digits[i] = c) - 1

RECURSIVE DecimalValue(_, _)
DecimalValue(x, acc) ==
    IF x = <<>> THEN acc
    ELSE DecimalValue(Tail(x), 10 * acc + DigitValue(Head(x)))

\* int(s) on a stripped string: an optional sign and decimal digits give the
\* number, anything else a ValueError
ParseInt(s) ==
    The({LET signed == x # <<>> /\ Head(x) \in {"-", "+"}
             digits == IF signed THEN Tail(x) ELSE x
         IN IF digits = <<>> \/ \E i \in DOMAIN digits : digits[i] \notin Range(Digits)
            THEN [ok |-> FALSE, n |-> 0]
            ELSE [ok |-> TRUE,
                  n |-> IF signed /\ Head(x) = "-" THEN 0 - DecimalValue(digits, 0)
                        ELSE DecimalValue(digits, 0)]
         : x \in {s}})

\* the body of the for loop on one line: "url" with the GopherURL to
\* append, "skip" for a line passed over by continue, or the exception the
\* try block ends with
getlinks_line(wd, line) ==
    The({IF tokens[1] = <<>> THEN [kind |-> "IndexError", url |-> TheRoot]
         ELSE IF tokens[1][1] = "i" THEN [kind |-> "skip", url |-> TheRoot]
         ELSE IF Len(tokens) < 4 THEN [kind |-> "IndexError", url |-> TheRoot]
         ELSE LET port == ParseInt(StripWs(tokens[4]))
                  url == GopherURL(tokens[1][1], StripWs(tokens[2]),
                                   StripWs(tokens[3]), port.n)
              IN IF ~port.ok THEN [kind |-> "ValueError", url |-> TheRoot]
                 ELSE IF valid_outcome(wd, url) = "ValueError"
                      THEN [kind |-> "ValueError", url |-> TheRoot]
                 ELSE IF valid_outcome(wd, url) = "False"
                      THEN [kind |-> "skip", url |-> url]
                 ELSE [kind |-> "url", url |-> url]
         : tokens \in {Split(StripWs(line), TAB)}})

\* the except clauses without the one for ValueError
caught_IndexError_only == {"IndexError"}

\* the exceptions the except clauses of the for loop catch
caught == {"IndexError", "ValueError"}

\* the for loop from line i on, with the list built so far: the list
\* returned, or "raise" when an exception leaves the loop
RECURSIVE getlinks_loop(_, _, _, _)
getlinks_loop(wd, lines, i, acc) ==
    IF i > Len(lines) THEN [kind |-> "return", urls |-> acc]
    ELSE LET r == getlinks_line(wd, lines[i])
         IN IF r.kind = "url" THEN getlinks_loop(wd, lines, i + 1, Append(acc, r.url))
            ELSE IF r.kind = "skip" \/ r.kind \in caught
                 THEN getlinks_loop(wd, lines, i + 1, acc)
            ELSE [kind |-> "raise", urls |-> acc]

\* getlinks(menucontent, config)
getlinks_menucontent(wd, text) ==
    The({getlinks_loop(wd, lines, 1, <<>>) : lines \in {Split(text, NEWLINE)}})

\* a menu line as a server writes it: type, display text, selector, host
\* and port, separated by tabs
MenuLine(type, text, path, host, port) ==
    <<type>> \o text \o <<TAB>> \o path \o <<TAB>> \o host \o <<TAB>> \o port

PORT_70 == <<"7", "0">>
TEXT_A == <<"A">>

\* the lines of the menu texts of the model, each with the GopherURLs it is
\* to yield: well-formed lines for a menu and a file, the same with a
\* carriage return or a further field at the end, an informational line, a
\* search line (a type valid() refuses), a line with port 0, and malformed
\* lines: no port field, a port that is no number, the end mark, nothing
LineUniverse ==
    {[line |-> MenuLine("1", TEXT_A, <<"/", "a">>, HOST_H, PORT_70), yields |-> <<MenuA>>],
     [line |-> MenuLine("0", <<>>, <<"/", "a">>, HOST_H, PORT_70) \o <<"\r">>,
      yields |-> <<FileA>>],
     [line |-> MenuLine("1", TEXT_A, <<"x">>, HOST_G, PORT_70) \o <<TAB, "+">>,
      yields |-> <<MenuX>>],
     [line |-> MenuLine("i", TEXT_A, <<"/", "a">>, HOST_H, PORT_70), yields |-> <<>>],
     [line |-> MenuLine("7", TEXT_A, <<"/", "a">>, HOST_H, PORT_70), yields |-> <<>>],
     [line |-> MenuLine("1", TEXT_A, <<"/", "a">>, HOST_H, <<"0">>), yields |-> <<>>],
     [line |-> <<"1">> \o TEXT_A \o <<TAB, "/", "a", TAB>> \o HOST_H, yields |-> <<>>],
     [line |-> MenuLine("1", TEXT_A, <<"/", "a">>, HOST_H, <<"7", "x">>), yields |-> <<>>],
     [line |-> <<".">>, yields |-> <<>>],
     [line |-> <<>>, yields |-> <<>>]}

\* the menus of the model: up to MaxMenuLines lines of the universe
RECURSIVE MenuTexts(_)
MenuTexts(n) ==
    IF n = 0 THEN {<<>>}
    ELSE LET shorter == MenuTexts(n - 1)
         IN shorter \cup {Append(m, l) : m \in shorter, l \in LineUniverse}

\* the text of a menu: its lines with a newline between them
RECURSIVE TextOf(_)
TextOf(m) ==
    IF m = <<>> THEN <<>>
    ELSE IF Len(m) = 1 THEN m[1].line
    ELSE m[1].line \o <<NEWLINE>> \o TextOf(Tail(m))

\* the GopherURLs the lines of a menu are to yield, in line order
RECURSIVE YieldOf(_)
YieldOf(m) == IF m = <<>> THEN <<>> ELSE m[1].yields \o YieldOf(Tail(m))

\* getlinks is called on menucontent
CallGetlinks ==
    /\ glpc = "called"
    /\ \E r \in {getlinks_menucontent(cwd, TextOf(menucontent))} :
        /\ urls' = r.urls
        /\ glpc' = r.kind
    /\ UNCHANGED <<crawlVars, cwd, validVars, downloadVars, menucontent, mainVars>>

-----------------------------------------------------------------------------
(* GopherURL.download *)

\* the number of retries after which download gives up
MaxRetries == 3

\* The environment of one download call: the first k connection attempts
\* fail with gaierror, TimeoutError or ConnectionRefusedError, and the
\* attempt after them ends as `last` says ("ok", or "error" for any other
\* exception).  The loop returns "buffer", "None" (the break leaves the
\* function without a return value) or "raise".
RECURSIVE download_loop(_, _, _)
download_loop(r, k, last) ==
    IF k = 0 THEN (IF last = "ok" THEN "buffer" ELSE "raise")
    ELSE IF r + 1 > MaxRetries THEN "None"
    ELSE download_loop(r + 1, k - 1, last)

download(k, last) == download_loop(0, k, last)

Environments == (0..(MaxRetries + 1)) \X {"ok", "error"}

\* every way a download call can end
DownloadOutcomes == {download(e[1], e[2]) : e \in Environments}

-----------------------------------------------------------------------------
(* GopherURL.download, attempt by attempt, with its delay *)

\* A delay is a float.  It is held as a whole number m of steps of a scale:
\* "s" counts in 1/1024 of a second, "min" counts in the smallest positive
\* float (2^-1074, about 5e-324), where a float has no fraction bits left.
\* Zero is [scale |-> "s", m |-> 0].
OneSecond == 1024
Delay(scale, m) == [scale |-> scale, m |-> m]
ZeroDelay == Delay("s", 0)

\* delay / 4 in float arithmetic: the quotient is rounded to the nearest
\* whole number of steps, a tie to the even one
Quarter(m) ==
    LET q == m \div 4
        r == m % 4
    IN IF r < 2 THEN q
       ELSE IF r > 2 THEN q + 1
       ELSE IF q % 2 = 0 THEN q ELSE q + 1

\* the delay set to 0 where a zero delay is met
next_delay_zero_kept(d) ==
    IF d.m # 0 THEN Delay(d.scale, d.m + Quarter(d.m)) ELSE ZeroDelay

\* delay = delay + delay / 4 if delay != 0 else 1
next_delay(d) ==
    IF d.m # 0 THEN Delay(d.scale, d.m + Quarter(d.m)) ELSE Delay("s", OneSecond)

\* a < b for two delays
DelayLess(a, b) ==
    IF a.scale = b.scale THEN a.m < b.m
    ELSE IF a.m = 0 THEN b.m > 0
    ELSE IF b.m = 0 THEN FALSE
    ELSE a.scale = "min"

\* the exceptions of an attempt that download retries on
Retried == {"gaierror", "TimeoutError", "ConnectionRefusedError"}

\* how one attempt can end: the buffer is received, one of the retried
\* exceptions, or any other exception of connect, send or recv
AttemptResults == Retried \cup {"received", "ConnectionResetError"}

\* the test that ends the retries, with >= in place of >
gives_up_one_early(r) == r >= MaxRetries

\* retries > 3
gives_up(r) == r > MaxRetries

\* the -w values of the model: none, three of the smallest floats, a
\* quarter of a second and a second
BaseDelays ==
    {ZeroDelay, Delay("min", 1), Delay("min", 2), Delay("min", 3),
     Delay("min", 5), Delay("s", 256), Delay("s", OneSecond)}

\* one pass of the while loop: sleep, connect, send and receive
DownloadAttempt ==
    /\ dlpc = "running"
    /\ slept' = Append(slept, delay)
    /\ \E result \in AttemptResults :
        /\ attempts' = Append(attempts, result)
        /\ IF result = "received"
           THEN dlpc' = "buffer" /\ UNCHANGED <<retries, delay>>
           ELSE IF result \notin Retried
           THEN dlpc' = "raise" /\ UNCHANGED <<retries, delay>>
           ELSE /\ retries' = retries + 1
                /\ IF gives_up(retries + 1)
                   THEN dlpc' = "None" /\ UNCHANGED delay
                   ELSE dlpc' = "running" /\ delay' = next_delay(delay)
    /\ UNCHANGED <<crawlVars, cwd, validVars, getlinksVars, mainVars>>

-----------------------------------------------------------------------------
(* the server and the local files *)

\* what a download connects to and sends
Address(g) == <<g.host, g.port, g.path>>

RECURSIVE TotalLines(_)
TotalLines(srv) ==
    IF DOMAIN srv = {} THEN 0
    ELSE LET a == CHOOSE x \in DOMAIN srv : TRUE
         IN Len(srv[a]) + TotalLines([x \in DOMAIN srv \ {a} |-> srv[x]])

\* The menu texts the server can answer a request for g with: its answer is
\* fixed from the first request on.
Answers(g) ==
    IF Address(g) \in DOMAIN server THEN {server[Address(g)]}
    ELSE {c \in AllContents : TotalLines(server) + Len(c) <= MaxLines}

\* the directories that hold the files of f, up to the root directory
DirsOf(f) == UNION {{SubSeq(p, 1, n) : n \in 0..(Len(p) - 1)} : p \in DOMAIN f}

\* os.path.exists / slurp, on a path relative to the working directory
exists(path) == \E p \in {AbsPath(cwd, path)} : p \in DOMAIN files \/ p \in dirs
slurp(path) == files[AbsPath(cwd, path)]

-----------------------------------------------------------------------------
(* crawl: the inner functions *)

\* the scope filter without its host rule
gurl_ok_without_host_rule(link) ==
    IF ~config.ascend_parents /\ ~StartsWith(link.path, root_gurl.path)
         THEN FALSE
    ELSE IF ~config.regex_on_menus /\ is_menu(link) THEN TRUE
    ELSE IF ~config.reject_regex.none /\ fullmatch(config.reject_regex, to_url(link))
         THEN FALSE
    ELSE IF ~config.accept_regex.none
         THEN fullmatch(config.accept_regex, to_url(link))
    ELSE TRUE

\* the scope filter with the spanhosts test negated
gurl_ok_spanhosts_negated(link) ==
    IF config.spanhosts /\ root_gurl.host # link.host THEN FALSE
    ELSE gurl_ok_without_host_rule(link)

\* the scope filter without its path rule
gurl_ok_without_path_rule(link) ==
    IF ~config.spanhosts /\ root_gurl.host # link.host THEN FALSE
    ELSE IF ~config.regex_on_menus /\ is_menu(link) THEN TRUE
    ELSE IF ~config.reject_regex.none /\ fullmatch(config.reject_regex, to_url(link))
         THEN FALSE
    ELSE IF ~config.accept_regex.none
         THEN fullmatch(config.accept_regex, to_url(link))
    ELSE TRUE

gurl_ok_by_config(link) ==
    IF ~config.spanhosts /\ root_gurl.host # link.host THEN FALSE
    ELSE IF ~config.ascend_parents /\ ~StartsWith(link.path, root_gurl.path)
         THEN FALSE
    ELSE IF ~config.regex_on_menus /\ is_menu(link) THEN TRUE
    ELSE IF ~config.reject_regex.none /\ fullmatch(config.reject_regex, to_url(link))
         THEN FALSE
    ELSE IF ~config.accept_regex.none
         THEN fullmatch(config.accept_regex, to_url(link))
    ELSE TRUE

\* retrieve_menu_content without the test for None before decode: a download
\* that gave up makes the call raise
retrieve_menu_content_decoding_None(gurl) ==
    IF exists(to_file_path(gurl)) /\ ~config.clobber
    THEN {[kind |-> "content", content |-> slurp(to_file_path(gurl)),
           server |-> server, ended |-> "local"]}
    ELSE UNION {
        IF d = "buffer"
        THEN {[kind |-> "content", content |-> c,
               server |-> (Address(gurl) :> c) @@ server, ended |-> d]
              : c \in Answers(gurl)}
        ELSE {[kind |-> "raise", content |-> <<>>, server |-> server, ended |-> d]}
        : d \in DownloadOutcomes}

\* retrieve_menu_content: every way the call can end.  kind is "content"
\* (with the menu lines), "None" or "raise"; server is the server as known
\* after the call; ended tells where the content came from: "local" for the
\* stored copy, else the outcome of the download.
retrieve_menu_content(gurl) ==
    IF exists(to_file_path(gurl)) /\ ~config.clobber
    THEN {[kind |-> "content", content |-> slurp(to_file_path(gurl)),
           server |-> server, ended |-> "local"]}
    ELSE UNION {
        IF d = "buffer"
        THEN {[kind |-> "content", content |-> c,
               server |-> (Address(gurl) :> c) @@ server, ended |-> d]
              : c \in Answers(gurl)}
        ELSE {[kind |-> d, content |-> <<>>, server |-> server, ended |-> d]}
        : d \in DownloadOutcomes}

\* gopher_urls_from_menu_link, given what retrieve_menu_content returned
gopher_urls_from_menu_link(r) ==
    IF r.kind = "None" THEN <<>>
    ELSE SelectSeq(getlinks(cwd, r.content), gurl_ok_by_config)

\* the new links without the difference
new_gurls_undiminished(new_gurls, old) == new_gurls

\* the difference taken by __eq__ alone, whatever the hashes
new_gurls_unequal(new_gurls, old) ==
    {g \in new_gurls : ~\E h \in old : Eq(g, h)}

\* new_gurls.difference(gurls)
new_unique_gurls(new_gurls, old) == {g \in new_gurls : ~In(g, old)}

\* menus = list(set(get_menus(gurls))) + [root_gurl]
initial_menus(S) ==
    {o \o <<root_gurl>> :
        o \in UNION {IterOrders(SetFromList(m)) : m \in MenuLists(S)}}

-----------------------------------------------------------------------------
(* crawl: the body *)

\* gurls = set(gopher_urls_from_menu_link(root_gurl)); menus = ...; depth = 0
ExpandRoot ==
    /\ pc = "start"
    /\ \E r \in retrieve_menu_content(root_gurl) :
        /\ server' = r.server
        /\ expanded' = Append(expanded, root_gurl)
        /\ outcomes' = Append(outcomes, r.ended)
        /\ IF r.kind = "raise"
           THEN /\ pc' = "raised"
                /\ UNCHANGED <<gurls, menus, idx, depth, rootKids, failed>>
           ELSE \E kids \in {SetFromList(gopher_urls_from_menu_link(r))} :
                /\ gurls' = kids
                /\ rootKids' = kids
                /\ \E m \in initial_menus(kids) : menus' = m
                /\ idx' = 0
                /\ depth' = 0
                /\ failed' = (r.kind = "None")
                /\ pc' = "loop"
    /\ UNCHANGED <<config, root_gurl, cwd, files, results, validVars, downloadVars,
                   getlinksVars, mainVars>>

\* one pass of `for menu in menus` that does not break
LoopStep ==
    /\ pc = "loop"
    /\ idx < Len(menus)
    /\ ~Exceeds(depth, config.maxdepth)
    /\ Len(menus) < MaxQueue
    /\ \E r \in retrieve_menu_content(menus[idx + 1]) :
        /\ server' = r.server
        /\ expanded' = Append(expanded, menus[idx + 1])
        /\ outcomes' = Append(outcomes, r.ended)
        /\ IF r.kind = "raise"
           THEN /\ pc' = "raised"
                /\ UNCHANGED <<gurls, menus, idx, depth, failed>>
           ELSE \E new_gurls \in {SetFromList(gopher_urls_from_menu_link(r))} :
                \E nu \in {new_unique_gurls(new_gurls, gurls)} :
                   /\ gurls' = gurls \cup nu
                   /\ \E m \in MenuLists(nu) : menus' = menus \o m
                   /\ idx' = idx + 1
                   /\ depth' = depth + 1
                   /\ failed' = (failed \/ r.kind = "None")
                   /\ pc' = "loop"
    /\ UNCHANGED <<config, root_gurl, cwd, files, rootKids, results, validVars, downloadVars,
                   getlinksVars, mainVars>>

\* the break of the loop: depth > config.maxdepth
MaxdepthReached ==
    /\ pc = "loop"
    /\ idx < Len(menus)
    /\ Exceeds(depth, config.maxdepth)
    /\ pc' = "done"
    /\ UNCHANGED <<config, root_gurl, cwd, server, files, gurls, menus, idx,
                   depth, expanded, rootKids, failed, outcomes, results,
                   validVars, downloadVars,
                   getlinksVars, mainVars>>

\* the list is used up: return gurls
LoopEnd ==
    /\ pc = "loop"
    /\ idx = Len(menus)
    /\ pc' = "done"
    /\ UNCHANGED <<config, root_gurl, cwd, server, files, gurls, menus, idx,
                   depth, expanded, rootKids, failed, outcomes, results,
                   validVars, downloadVars,
                   getlinksVars, mainVars>>


\* crawl is called again with the same arguments against the same server and
\* files; the set the finished call returned is kept when no retrieval of
\* that call came back empty-handed
CallAgain ==
    /\ pc = "done"
    /\ results' = IF failed THEN results ELSE results \cup {gurls}
    /\ pc' = "start"
    /\ gurls' = {}
    /\ menus' = <<>>
    /\ idx' = 0
    /\ depth' = 0
    /\ expanded' = <<>>
    /\ rootKids' = {}
    /\ failed' = FALSE
    /\ outcomes' = <<>>
    /\ UNCHANGED <<config, root_gurl, cwd, server, files, validVars, downloadVars,
                   getlinksVars, mainVars>>

-----------------------------------------------------------------------------
(* spliturl *)

GOPHER_SCHEME == <<"g", "o", "p", "h", "e", "r", ":", "/", "/">>
SCHEME_MARK == <<":", "/", "/">>

\* the index of the first character of s from position i on that is in
\* stops, or Len(s) + 1
FirstOf(s, stops, i) ==
    The({IF \E k \in i..Len(x) : x[k] \in stops
         THEN CHOOSE k \in i..Len(x) :
                  x[k] \in stops /\ \A j \in i..(k - 1) : x[j] \notin stops
         ELSE Len(x) + 1
         : x \in {s}})

\* urllib.parse.urlsplit on a string that starts with "//" (after its
\* scheme, if any): the network location up to the first "/" or "?", the
\* path up to the first "?", the query after it
urlsplit(rest) ==
    The({LET e == FirstOf(x, {SLASH, "?"}, 3)
             q == FirstOf(x, {"?"}, e)
         IN [netloc |-> SubSeq(x, 3, e - 1),
             path |-> SubSeq(x, e, q - 1),
             query |-> SubSeq(x, q + 1, Len(x))]
         : x \in {rest}})

\* url.port: None (the default applies) without a port, the number of a
\* port of decimal digits up to 65535, ValueError otherwise
url_port(netloc) ==
    The({IF Len(parts) = 1 \/ parts[2] = <<>> THEN [ok |-> TRUE, n |-> DefaultPort]
         ELSE IF \E i \in DOMAIN parts[2] : parts[2][i] \notin Range(Digits)
              THEN [ok |-> FALSE, n |-> 0]
         ELSE IF DecimalValue(parts[2], 0) > 65535 THEN [ok |-> FALSE, n |-> 0]
         ELSE [ok |-> TRUE, n |-> DecimalValue(parts[2], 0)]
         : parts \in {Split(netloc, ":")}})

\* spliturl: (host, port, path), or the ValueError it raises
spliturl(urlstr) ==
    LET has_gopher_scheme ==
            Len(urlstr) >= 9 /\ SubSeq(urlstr, 1, 9) = GOPHER_SCHEME
        has_scheme == Contains(urlstr, SCHEME_MARK)
    IN IF has_scheme /\ ~has_gopher_scheme
       THEN [kind |-> "ValueError", host |-> <<>>, port |-> 0, path |-> <<>>]
       ELSE LET url == urlsplit(IF has_scheme THEN SubSeq(urlstr, 8, Len(urlstr))
                                ELSE <<SLASH, SLASH>> \o urlstr)
                path == IF Len(url.path) = 0 THEN <<SLASH>> ELSE url.path
                port == url_port(url.netloc)
            IN IF ~port.ok
               THEN [kind |-> "ValueError", host |-> <<>>, port |-> 0, path |-> <<>>]
               ELSE [kind |-> "ok",
                     host |-> Split(url.netloc, ":")[1],
                     port |-> port.n,
                     path |-> IF url.query # <<>> THEN path \o <<"?">> \o url.query
                              ELSE path]

-----------------------------------------------------------------------------
(* write_gopherurl, gopherdl and main *)

\* hueristic: probably a menu if there's no file extension or ends in /
probably_a_menu(path) ==
    LET parts == Split(path, SLASH)
        end == parts[Len(parts)]
    IN ~Contains(end, <<DOT>>) \/ path[Len(path)] = SLASH

\* the file write_gopherurl writes a resource to, as an absolute path
outfile(g) == AbsPath(cwd, OsPathJoin(config.archive_directory, to_file_path(g)))

\* the record of a write_gopherurl call; before the first call
NoWrite == [gurl |-> TheRoot, outfile |-> <<>>, existed |-> FALSE,
            downloaded |-> FALSE, ended |-> "none", content |-> <<>>]

\* the test on the content, for None alone
persists_unless_None(ended, content) == ended = "buffer"

\* if content: a buffer that is not empty is written
persists(ended, content) == ended = "buffer" /\ content # <<>>

\* write_gopherurl(gurl, config): every way the call can end.  The call
\* leaves when the file exists and clobber is off; else mkdirs makes the
\* directories above the file (it raises below a path that is a file), the
\* resource is downloaded, and a content that persists is written (open
\* raises on a directory or below a file).
write_gopherurl(g) ==
    LET out == outfile(g)
        above == {SubSeq(out, 1, n) : n \in 0..(Len(out) - 1)}
        parent == SubSeq(out, 1, Len(out) - 1)
        kept == [gurl |-> g, outfile |-> out, existed |-> TRUE,
                 downloaded |-> FALSE, ended |-> "none", content |-> <<>>]
    IN IF (out \in DOMAIN files \/ out \in dirs) /\ ~config.clobber
       THEN {[raises |-> FALSE, files |-> files, dirs |-> dirs, server |-> server,
              wrote |-> kept]}
       ELSE IF \E d \in above \ {parent} : d \in DOMAIN files
       THEN {[raises |-> TRUE, files |-> files, dirs |-> dirs, server |-> server,
              wrote |-> [kept EXCEPT !.existed = out \in DOMAIN files \/ out \in dirs]]}
       ELSE UNION {
           {[raises |-> d = "raise"
                        \/ (persists(d, c) /\ (out \in dirs \/ parent \in DOMAIN files)),
             files |-> IF persists(d, c) /\ out \notin dirs /\ parent \notin DOMAIN files
                       THEN (out :> c) @@ files ELSE files,
             dirs |-> IF parent \in DOMAIN files THEN dirs ELSE dirs \cup above,
             server |-> IF d = "buffer" THEN (Address(g) :> c) @@ server ELSE server,
             wrote |-> [gurl |-> g, outfile |-> out,
                        existed |-> out \in DOMAIN files \/ out \in dirs,
                        downloaded |-> TRUE, ended |-> d, content |-> c]]
            : c \in IF d = "buffer" THEN Answers(g) ELSE {<<>>}}
           : d \in DownloadOutcomes}

\* the lists gopherdl hands to download_gopher_urls, menus before files,
\* each in an iteration order of the set crawl returned
download_lists(S) ==
    {(IF config.no_save_menu THEN <<>> ELSE get_menus(o1))
     \o (IF config.only_save_menu THEN <<>>
         ELSE SelectSeq(o2, LAMBDA g : ~is_menu(g)))
     : o1 \in IterOrders(S), o2 \in IterOrders(S)}

\* the exceptions the for loop of main catches
main_caught_nothing == {}

\* except ValueError
main_caught == {"ValueError"}

\* one pass of the for loop of main, up to the crawl or the single write of
\* gopherdl: spliturl raises ValueError, which is logged, or root_gurl is
\* built and crawl is called (-r) or the root is to be written
MainNextHost ==
    /\ mainpc = "loop"
    /\ hostidx < Len(hosts)
    /\ \E r \in {spliturl(hosts[hostidx + 1])} :
        IF r.kind # "ok"
        THEN /\ IF r.kind \in main_caught
                THEN /\ logged' = Append(logged, hosts[hostidx + 1])
                     /\ hostidx' = hostidx + 1
                     /\ mainpc' = "loop"
                ELSE /\ mainpc' = "aborted"
                     /\ UNCHANGED <<logged, hostidx>>
             /\ UNCHANGED <<root_gurl, gurls, menus, idx, depth, pc, expanded,
                            rootKids, failed, outcomes, pending>>
        ELSE /\ root_gurl' = GopherURL(IF probably_a_menu(r.path) THEN "1" ELSE "0",
                                       r.path, r.host, r.port)
             /\ gurls' = {}
             /\ menus' = <<>>
             /\ idx' = 0
             /\ depth' = 0
             /\ expanded' = <<>>
             /\ rootKids' = {}
             /\ failed' = FALSE
             /\ outcomes' = <<>>
             /\ IF config.recursive
                THEN pc' = "start" /\ mainpc' = "crawling" /\ pending' = <<>>
                ELSE pc' = "idle" /\ mainpc' = "writing" /\ pending' = <<root_gurl'>>
             /\ UNCHANGED <<logged, hostidx>>
    /\ UNCHANGED <<config, cwd, server, files, results, validVars, downloadVars,
                   getlinksVars, hosts, dirs, wrote, returned>>

\* crawl has returned to gopherdl: the menus and the files of its set are
\* to be written
CrawlReturns ==
    /\ mainpc = "crawling"
    /\ pc = "done"
    /\ pc' = "idle"
    /\ \E l \in download_lists(gurls) : pending' = l
    /\ mainpc' = "writing"
    /\ UNCHANGED <<config, root_gurl, cwd, server, files, gurls, menus, idx,
                   depth, expanded, rootKids, failed, outcomes, results,
                   validVars, downloadVars, getlinksVars, hosts, hostidx, logged,
                   dirs, wrote, returned>>

\* an exception has left crawl: it is no ValueError, so it leaves gopherdl
\* and main
CrawlRaises ==
    /\ mainpc = "crawling"
    /\ pc = "raised"
    /\ pc' = "idle"
    /\ mainpc' = "aborted"
    /\ UNCHANGED <<config, root_gurl, cwd, server, files, gurls, menus, idx,
                   depth, expanded, rootKids, failed, outcomes, results,
                   validVars, downloadVars, getlinksVars, hosts, hostidx, logged,
                   pending, dirs, wrote, returned>>

\* one pass of the loop of download_gopher_urls (or the single write of
\* gopherdl without -r): write_gopherurl on the next resource
WriteGopherurl ==
    /\ mainpc = "writing"
    /\ pending # <<>>
    /\ \E w \in write_gopherurl(Head(pending)) :
        /\ files' = w.files
        /\ dirs' = w.dirs
        /\ server' = w.server
        /\ wrote' = w.wrote
        /\ mainpc' = IF w.raises THEN "aborted" ELSE "writing"
    /\ pending' = Tail(pending)
    /\ UNCHANGED <<config, root_gurl, cwd, gurls, menus, idx, depth, pc,
                   expanded, rootKids, failed, outcomes, results, validVars,
                   downloadVars, getlinksVars, hosts, hostidx, logged, returned>>

\* gopherdl returns to the for loop of main
GopherdlReturns ==
    /\ mainpc = "writing"
    /\ pending = <<>>
    /\ returned' = Append(returned, hosts[hostidx + 1])
    /\ hostidx' = hostidx + 1
    /\ mainpc' = "loop"
    /\ UNCHANGED <<crawlVars, cwd, validVars, downloadVars, getlinksVars, hosts,
                   logged, pending, dirs, wrote>>

\* the for loop of main is through
MainExit ==
    /\ mainpc = "loop"
    /\ hostidx = Len(hosts)
    /\ mainpc' = "exit"
    /\ UNCHANGED <<crawlVars, cwd, validVars, downloadVars, getlinksVars, hosts,
                   hostidx, logged, pending, dirs, wrote, returned>>

-----------------------------------------------------------------------------
(* valid() on its own *)

RECURSIVE Strings(_, _)
Strings(chars, n) ==
    IF n = 0 THEN {<<>>}
    ELSE LET shorter == Strings(chars, n - 1)
         IN shorter \cup {Append(s, c) : s \in shorter, c \in chars}

ValidInputs ==
    {GopherURL(t, p, h, port) :
        t \in {"1", "0", "7"},
        p \in Strings({"/", ".", "a"}, MaxPathLen) \cup {<<"/">> \o URL_MARK},
        h \in Strings({"a", "."}, MaxHostLen),
        port \in {0, DefaultPort}}

CallValid ==
    /\ vout = "unset"
    /\ vout' = valid_outcome(cwd, vgurl)
    /\ UNCHANGED <<crawlVars, cwd, vgurl, downloadVars, getlinksVars, mainVars>>

-----------------------------------------------------------------------------
(* specifications *)

\* no call of download, of getlinks or of main is under way
DownloadIdle ==
    /\ retries = 0
    /\ delay = ZeroDelay
    /\ dlpc = "idle"
    /\ attempts = <<>>
    /\ slept = <<>>

GetlinksIdle ==
    /\ menucontent = <<>>
    /\ urls = <<>>
    /\ glpc = "idle"

MainIdle ==
    /\ hosts = <<>>
    /\ hostidx = 0
    /\ mainpc = "idle"
    /\ logged = <<>>
    /\ pending = <<>>
    /\ dirs = DirsOf(files) \cup {SubSeq(cwd, 1, n) : n \in 0..Len(cwd)}
    /\ wrote = NoWrite
    /\ returned = <<>>

CrawlInit ==
    /\ gurls = {}
    /\ menus = <<>>
    /\ idx = 0
    /\ depth = 0
    /\ expanded = <<>>
    /\ rootKids = {}
    /\ failed = FALSE
    /\ outcomes = <<>>
    /\ results = {}

Init ==
    /\ config \in Configs
    /\ root_gurl = TheRoot
    /\ cwd = TheCwd
    /\ server = [a \in {} |-> <<>>]
    /\ files \in FilesOptions
    /\ CrawlInit
    /\ pc = "start"
    /\ vgurl = TheRoot
    /\ vout = "idle"
    /\ DownloadIdle
    /\ GetlinksIdle
    /\ MainIdle

Next == ExpandRoot \/ LoopStep \/ MaxdepthReached \/ LoopEnd

\* one call of crawl
Spec == Init /\ [][Next]_vars

\* the calls of crawl whose end is in question: every configuration that
\* leaves maxdepth unbounded and, beside them, the ones whose only option
\* is -l
InitUnbounded ==
    /\ Init
    /\ \/ config.maxdepth.inf
       \/ \E l \in 0..MaxDepthOpt : config = Config({"-l"}, l, {}, {}, HereArchive)

\* one call of crawl that keeps running: a sequential program takes its
\* next step whenever it has one
FairSpec == InitUnbounded /\ [][Next]_vars /\ WF_vars(Next)

NextAgain == Next \/ CallAgain

\* repeated calls of crawl on the same arguments
SpecAgain == Init /\ [][NextAgain]_vars

InitValid ==
    /\ config = Config({}, 0, {}, {}, HereArchive)
    /\ root_gurl = TheRoot
    /\ cwd \in {<<<<"w">>>>, <<<<"w">>, <<"a">>>>}
    /\ server = [a \in {} |-> <<>>]
    /\ files = EmptyFiles
    /\ CrawlInit
    /\ pc = "idle"
    /\ vgurl \in ValidInputs
    /\ vout = "unset"
    /\ DownloadIdle
    /\ GetlinksIdle
    /\ MainIdle

NextValid == CallValid

\* valid() called on one GopherURL
SpecValid == InitValid /\ [][NextValid]_vars

InitDownload ==
    /\ config = Config({}, 0, {}, {}, HereArchive)
    /\ root_gurl = TheRoot
    /\ cwd = TheCwd
    /\ server = [a \in {} |-> <<>>]
    /\ files = EmptyFiles
    /\ CrawlInit
    /\ pc = "idle"
    /\ vgurl = TheRoot
    /\ vout = "idle"
    /\ retries = 0
    /\ delay \in BaseDelays
    /\ dlpc = "running"
    /\ attempts = <<>>
    /\ slept = <<>>
    /\ GetlinksIdle
    /\ MainIdle

InitGetlinks ==
    /\ config = Config({}, 0, {}, {}, HereArchive)
    /\ root_gurl = TheRoot
    /\ cwd = TheCwd
    /\ server = [a \in {} |-> <<>>]
    /\ files = EmptyFiles
    /\ CrawlInit
    /\ pc = "idle"
    /\ vgurl = TheRoot
    /\ vout = "idle"
    /\ DownloadIdle
    /\ menucontent \in MenuTexts(MaxMenuLines)
    /\ urls = <<>>
    /\ glpc = "called"
    /\ MainIdle

NextGetlinks == CallGetlinks

\* one call of getlinks
SpecGetlinks == InitGetlinks /\ [][NextGetlinks]_vars

\* the root addresses of the model: a host alone, a gopher address, an
\* address with another scheme
HostUniverse ==
    {HOST_H, GOPHER_SCHEME \o HOST_H \o <<SLASH>>,
     <<"h", "t", "t", "p">> \o SCHEME_MARK \o HOST_H}

HostLists == UNION {[1..n -> HostUniverse] : n \in 1..MaxHosts}

\* the command lines of the model: a single download, and recursive ones
\* with and without -c and -O ., with -l 0, with -m, with -n
MainFlagSets ==
    {{}, {"-r"}, {"-r", "-c"}, {"-r", "-O"}, {"-r", "-l"}, {"-r", "-m"},
     {"-r", "-n"}}

MainConfigs == {Config(flags, 0, {}, {}, HereArchive) : flags \in MainFlagSets}

\* the server of a run of main: its root menu lists menu A; what the other
\* addresses answer shows when they are asked
MainServer == [a \in {Address(TheRoot)} |-> <<MenuA>>]

InitMain ==
    /\ config \in MainConfigs
    /\ root_gurl = TheRoot
    /\ cwd = TheCwd
    /\ server = MainServer
    /\ files = EmptyFiles
    /\ CrawlInit
    /\ pc = "idle"
    /\ vgurl = TheRoot
    /\ vout = "idle"
    /\ DownloadIdle
    /\ GetlinksIdle
    /\ hosts \in HostLists
    /\ hostidx = 0
    /\ mainpc = "loop"
    /\ logged = <<>>
    /\ pending = <<>>
    /\ dirs = {SubSeq(cwd, 1, n) : n \in 0..Len(cwd)}
    /\ wrote = NoWrite
    /\ returned = <<>>

NextMain ==
    \/ MainNextHost
    \/ ExpandRoot
    \/ LoopStep
    \/ MaxdepthReached
    \/ LoopEnd
    \/ CrawlReturns
    \/ CrawlRaises
    \/ WriteGopherurl
    \/ GopherdlReturns
    \/ MainExit

\* one run of main
SpecMain == InitMain /\ [][NextMain]_vars

NextDownload == DownloadAttempt

\* one call of download
SpecDownload == InitDownload /\ [][NextDownload]_vars

-----------------------------------------------------------------------------
(* notions the properties are stated with *)

\* how often the menu content of a resource equal to g was retrieved
Expansions(g) == Cardinality({i \in DOMAIN expanded : Eq(expanded[i], g)})

\* the menu lines a completed retrieval for g has seen
Retrieved(g) ==
    IF exists(to_file_path(g)) /\ ~config.clobber THEN slurp(to_file_path(g))
    ELSE IF Address(g) \in DOMAIN server THEN server[Address(g)]
    ELSE <<>>

\* the directory named by g.host holds the storage path of g, both made
\* absolute and normalised
Contained(wd, g) ==
    LET dir == AbsPath(wd, g.host)
        file == AbsPath(wd, to_file_path(g))
    IN Len(dir) <= Len(file) /\ SubSeq(file, 1, Len(dir)) = dir

NoPatterns == config.accept_regex.none /\ config.reject_regex.none

\* every retrieval of the call so far produced menu content
EveryFetchSucceeded == \A i \in DOMAIN outcomes : outcomes[i] \in {"local", "buffer"}

\* the links of a retrieved menu that pass valid() and the scope filter
Accepted(g) == Range(gopher_urls_from_menu_link(
                   [kind |-> "content", content |-> Retrieved(g)]))

\* the guard on the length of the menu list never holds a step of crawl back
QueueCapNotReached == Len(menus) < MaxQueue

-----------------------------------------------------------------------------
(* C1 *)

\* C1: during one call of crawl every resource (host and path),
\* the root included, has its menu content retrieved at most once.
C1_ExpandedAtMostOnce == \A i \in DOMAIN expanded : Expansions(expanded[i]) <= 1

-----------------------------------------------------------------------------
(* C2 *)

\* C2: whenever valid() returns true for a resource, the resource's storage
\* path, normalised, lies inside the directory named by its host.
C2_ValidIsContained == vout = "True" => Contained(cwd, vgurl)

-----------------------------------------------------------------------------
(* C3 *)

\* C3: with maxdepth = 0 crawl returns only the root's direct
\* children.
C3_OnlyRootChildren ==
    (pc = "done" /\ config.maxdepth = IntDepth(0)) => gurls \subseteq rootKids

-----------------------------------------------------------------------------
(* C4 *)

\* C4: with unbounded maxdepth a call of crawl comes to its end, whatever
\* the menus link to (a fetch that raises ends the call at once).
C4_Terminates == config.maxdepth.inf => <>(pc \in {"done", "raised"})

\* a finished call with unbounded maxdepth on a cycle: the root lists menu A
\* and menu A lists the root
C4_Witness ==
    /\ pc = "done"
    /\ config.maxdepth.inf
    /\ files = EmptyFiles
    /\ MenuA \in Range(expanded)
    /\ Address(MenuA) \in DOMAIN server
    /\ RootLink \in Range(server[Address(MenuA)])
    /\ MenuA \in Range(server[Address(root_gurl)])

-----------------------------------------------------------------------------
(* C5 *)

\* C5: no two members of crawl's set have the same host and path.
C5_UniqueByHostAndPath == \A a, b \in gurls : Eq(a, b) => a = b

-----------------------------------------------------------------------------
(* C6 *)

\* C6: the set crawl returns contains the root resource.
C6_RootReturned == pc = "done" => \E g \in gurls : Eq(g, root_gurl)

-----------------------------------------------------------------------------
(* C7 *)

\* C7: crawl never raises to its caller because of a failed download.
C7_NeverRaises == pc # "raised"

-----------------------------------------------------------------------------
(* C8 *)

\* C8: calls of crawl on the same root, configuration, server contents and
\* files return the same set, whatever order the sets are iterated in.
C8_SameSetEveryOrder ==
    (pc = "done" /\ ~failed) => \A r \in results : SetEq(r, gurls)

-----------------------------------------------------------------------------
(* C9 *)

\* C9: with spanhosts disabled no resource on a host other than the root's
\* is in crawl's set and no menu on such a host is expanded, whatever the
\* accept and reject patterns.
C9_StaysOnRootHost ==
    ~config.spanhosts =>
        /\ \A g \in gurls : g.host = root_gurl.host
        /\ \A i \in DOMAIN expanded : expanded[i].host = root_gurl.host

\* a finished call without spanhosts whose accept pattern matches the link
\* to the other host that the root menu lists
C9_Witness ==
    /\ pc = "done"
    /\ ~config.spanhosts
    /\ config.ascend_parents
    /\ ~config.accept_regex.none
    /\ fullmatch(config.accept_regex, to_url(MenuX))
    /\ Address(root_gurl) \in DOMAIN server
    /\ MenuX \in Range(server[Address(root_gurl)])

-----------------------------------------------------------------------------
(* C10 *)

\* C10 as stated: with spanhosts enabled and no pattern, every valid link to
\* another host that an expanded menu lists is in the returned set.
C10_ForeignLinkIncluded ==
    (pc = "done" /\ config.spanhosts /\ NoPatterns) =>
        \A i \in DOMAIN expanded : \A l \in Range(Retrieved(expanded[i])) :
            (l.host # root_gurl.host /\ valid(cwd, l)) => In(l, gurls)

\* C10 amended: with spanhosts enabled and no pattern, every valid link to
\* another host that an expanded menu lists is in the returned set, provided
\* ascend_parents is enabled or the link's path starts with the root's path.
C10_ForeignLinkOnPathIncluded ==
    (pc = "done" /\ config.spanhosts /\ NoPatterns) =>
        \A i \in DOMAIN expanded : \A l \in Range(Retrieved(expanded[i])) :
            (/\ l.host # root_gurl.host
             /\ valid(cwd, l)
             /\ (config.ascend_parents \/ StartsWith(l.path, root_gurl.path)))
            => In(l, gurls)

\* a finished call with spanhosts and ascend_parents whose root menu lists
\* the menu on the other host
C10_Witness ==
    /\ pc = "done"
    /\ config.spanhosts
    /\ config.ascend_parents
    /\ NoPatterns
    /\ Address(root_gurl) \in DOMAIN server
    /\ MenuX \in Range(server[Address(root_gurl)])
    /\ MenuX \in gurls

-----------------------------------------------------------------------------
(* C11 *)

\* C11: with unbounded maxdepth and every fetch succeeding, the returned set
\* is closed under the links that pass valid() and the scope filter: every
\* such link of every expanded menu is in the set, and every menu of the set
\* was expanded; so everything reachable from the root is returned.
C11_ReachableReturned ==
    (pc = "done" /\ config.maxdepth.inf /\ EveryFetchSucceeded) =>
        /\ expanded # <<>> /\ expanded[1] = root_gurl
        /\ \A i \in DOMAIN expanded : \A l \in Accepted(expanded[i]) : In(l, gurls)
        /\ \A g \in gurls : is_menu(g) => \E i \in DOMAIN expanded : SameElem(expanded[i], g)

\* a finished call with unbounded maxdepth whose set holds a resource found
\* two menus away from the root
C11_Witness ==
    /\ pc = "done"
    /\ config.maxdepth.inf
    /\ EveryFetchSucceeded
    /\ files = EmptyFiles
    /\ MenuA \in rootKids
    /\ FileA \in gurls \ rootKids

-----------------------------------------------------------------------------
(* C14 *)

\* the step retrieves menu content and the download gives up after its
\* retries
DownloadGaveUp ==
    /\ Len(outcomes') = Len(outcomes) + 1
    /\ outcomes'[Len(outcomes')] = "None"

\* C14: a menu whose download exhausts its retries contributes no children
\* (the set and the queue stay as they are, the loop moves on to the next
\* entry), and a call that returns has expanded every entry of the queue in
\* order unless the depth limit ended the loop.
C14_FailedMenuIsPassedOver ==
    /\ [][DownloadGaveUp =>
            /\ pc' = "loop"
            /\ pc = "loop" => (gurls' = gurls /\ menus' = menus /\ idx' = idx + 1)
            /\ pc = "start" => (gurls' = {} /\ menus' = <<root_gurl>> /\ idx' = 0)]_vars
    /\ [](pc = "done" =>
            /\ idx = Len(menus) \/ Exceeds(depth, config.maxdepth)
            /\ Len(expanded) = idx + 1
            /\ \A j \in 1..idx : expanded[j + 1] = menus[j])

\* a finished call in which the download of a queued menu gave up and a
\* menu after it in the queue was expanded with content
C14_Witness ==
    /\ pc = "done"
    /\ \E i, j \in DOMAIN outcomes :
        /\ 1 < i /\ i < j
        /\ outcomes[i] = "None"
        /\ outcomes[j] = "buffer"
        /\ expanded[i] = MenuA

-----------------------------------------------------------------------------
(* C18 *)

\* C18: with ascend_parents disabled every member of crawl's set has a path
\* that starts with the root's path, and so has every expanded menu other
\* than the root.
C18_StaysBelowRootPath ==
    ~config.ascend_parents =>
        /\ \A g \in gurls : StartsWith(g.path, root_gurl.path)
        /\ \A i \in DOMAIN expanded :
            expanded[i] = root_gurl \/ StartsWith(expanded[i].path, root_gurl.path)

\* a finished call without ascend_parents, with spanhosts, whose root menu
\* lists the menu with path "x" and whose set is not empty
C18_Witness ==
    /\ pc = "done"
    /\ ~config.ascend_parents
    /\ config.spanhosts
    /\ Address(root_gurl) \in DOMAIN server
    /\ MenuX \in Range(server[Address(root_gurl)])
    /\ gurls # {}

-----------------------------------------------------------------------------
(* C19 *)

\* C19: depth is the number of menus the loop has expanded; with a finite
\* maxdepth d the loop expands at most d + 1 menus after the root, and the
\* break leaves the loop exactly when d + 1 of them were expanded, however
\* many entries the queue still has.
C19_DepthCountsExpandedMenus ==
    /\ pc \in {"loop", "done"} => (depth = idx /\ Len(expanded) = depth + 1)
    /\ ~config.maxdepth.inf => Len(expanded) <= config.maxdepth.n + 2
    /\ (pc = "done" /\ idx < Len(menus)) => depth = config.maxdepth.n + 1

\* a call with maxdepth 1 that left the loop by the break after two
\* expansions, with an entry of the queue unexpanded
C19_Witness ==
    /\ pc = "done"
    /\ config.maxdepth = IntDepth(1)
    /\ depth = 2
    /\ idx < Len(menus)

-----------------------------------------------------------------------------
(* C13 *)

\* C13: a download call whose attempts all fail with gaierror, TimeoutError
\* or ConnectionRefusedError never raises, makes at most four attempts, and
\* returns (None) exactly when the fourth has failed.
C13_GivesUpAfterFourAttempts ==
    (\A i \in DOMAIN attempts : attempts[i] \in Retried) =>
        /\ dlpc # "raise"
        /\ Len(attempts) <= MaxRetries + 1
        /\ dlpc = "None" <=> Len(attempts) = MaxRetries + 1
        /\ retries = Len(attempts)

\* a call that returned None after four failed attempts
C13_Witness ==
    /\ dlpc = "None"
    /\ Len(attempts) = 4
    /\ \A i \in DOMAIN attempts : attempts[i] \in Retried

-----------------------------------------------------------------------------
(* C20 *)

\* C20 as stated: each delay a download call sleeps is strictly larger than
\* the one it slept before.
C20_DelayGrowsStrictly ==
    \A i \in DOMAIN slept : i > 1 => DelayLess(slept[i - 1], slept[i])

\* a quarter of the delay rounds to zero: one or two steps of the smallest
\* float
QuarterVanishes(d) == d.scale = "min" /\ d.m \in {1, 2}

\* C20 amended: each delay slept before a retry is strictly larger than the
\* one before it (1 second after a zero delay), except after a positive
\* delay so small that a quarter of it rounds to zero, which is slept again
\* unchanged.
C20_DelayGrowsUnlessQuarterVanishes ==
    \A i \in DOMAIN slept : i > 1 =>
        IF QuarterVanishes(slept[i - 1]) THEN slept[i] = slept[i - 1]
        ELSE /\ DelayLess(slept[i - 1], slept[i])
             /\ slept[i - 1] = ZeroDelay => slept[i] = Delay("s", OneSecond)

\* a call that started without delay and slept three times before retries
C20_Witness ==
    /\ Len(slept) = 4
    /\ slept[1] = ZeroDelay
    /\ slept[2] = Delay("s", OneSecond)
    /\ slept[4] = Delay("s", 1600)

-----------------------------------------------------------------------------
(* C15 *)

\* C15: getlinks never raises, and it returns, in line order, exactly the
\* resources of the well-formed lines that are not informational and pass
\* valid(), whatever malformed lines stand between them.
C15_EveryLineOnItsOwn ==
    /\ glpc # "raise"
    /\ glpc = "return" => urls = YieldOf(menucontent)

\* a call on a menu whose first line lacks the port field and whose second
\* line is well-formed, which returned the resource of the second line
C15_Witness ==
    /\ glpc = "return"
    /\ Len(menucontent) = 2
    /\ Len(Split(menucontent[1].line, TAB)) = 3
    /\ menucontent[2].yields = <<MenuA>>
    /\ urls = <<MenuA>>

-----------------------------------------------------------------------------
(* C12 *)

\* C12: with clobber disabled, when crawl expands a resource that
\* write_gopherurl has written a file for, the retrieval reads the stored
\* copy and downloads nothing.
C12_StoredCopyIsRead ==
    (mainpc = "crawling" /\ ~config.clobber) =>
        \A i \in DOMAIN expanded :
            outfile(expanded[i]) \in DOMAIN files => outcomes[i] = "local"

-----------------------------------------------------------------------------
(* C16 *)

\* the step is a call of write_gopherurl
WriteStep == mainpc = "writing" /\ pending # <<>>

\* C16: the files change only by a call of write_gopherurl that found no
\* file in place or has clobber enabled and that downloaded a content that
\* is not empty, and then only the output file of the resource is written;
\* a call that finds the file in place without clobber downloads nothing
\* and changes nothing; a download without bytes leaves the files as they
\* are.
C16_WritesOnlyFreshContent ==
    [][/\ files' # files =>
            /\ WriteStep
            /\ wrote'.gurl = Head(pending)
            /\ wrote'.outfile = outfile(Head(pending))
            /\ ~wrote'.existed \/ config.clobber
            /\ wrote'.ended = "buffer" /\ wrote'.content # <<>>
            /\ files' = (wrote'.outfile :> wrote'.content) @@ files
       /\ (WriteStep /\ ~config.clobber
              /\ (outfile(Head(pending)) \in DOMAIN files
                    \/ outfile(Head(pending)) \in dirs)) =>
            /\ files' = files
            /\ server' = server
            /\ ~wrote'.downloaded
       /\ (WriteStep /\ wrote'.downloaded
              /\ (wrote'.ended # "buffer" \/ wrote'.content = <<>>)) =>
            files' = files
      ]_vars

\* a call of write_gopherurl has found a file that an earlier call wrote
\* and, without clobber, has left it alone
C16_Witness ==
    /\ ~config.clobber
    /\ wrote.existed
    /\ ~wrote.downloaded
    /\ wrote.outfile \in DOMAIN files
    /\ wrote.gurl = MenuA

-----------------------------------------------------------------------------
(* C17 *)

\* the next root address of the for loop has a scheme other than gopher
NextHostHasOtherScheme ==
    /\ mainpc = "loop"
    /\ hostidx < Len(hosts)
    /\ Contains(hosts[hostidx + 1], SCHEME_MARK)
    /\ ~StartsWith(hosts[hostidx + 1], GOPHER_SCHEME)

\* C17: a root address with a scheme other than gopher is logged and the
\* for loop goes on to the address after it; main never ends on such an
\* address, and a run that reaches the end of the loop has logged every
\* such address and gone through gopherdl for every other one.
C17_OtherSchemeFailsAlone ==
    /\ [][NextHostHasOtherScheme =>
            /\ mainpc' = "loop"
            /\ hostidx' = hostidx + 1
            /\ logged' = Append(logged, hosts[hostidx + 1])]_vars
    /\ [](mainpc = "exit" =>
            /\ hostidx = Len(hosts)
            /\ logged = SelectSeq(hosts, LAMBDA h : spliturl(h).kind = "ValueError")
            /\ returned = SelectSeq(hosts, LAMBDA h : spliturl(h).kind = "ok"))

\* a run of main that logged its first root address, an http one, and went
\* through gopherdl, crawl included, for the second
C17_Witness ==
    /\ mainpc = "exit"
    /\ Len(hosts) = 2
    /\ logged = <<hosts[1]>>
    /\ returned = <<hosts[2]>>
    /\ config.recursive
    /\ expanded # <<>>

====
